---------------------------- MODULE Spec2Model ----------------------------
(***************************************************************************)
(* Model of the stock analyzer: StockAnalyzer (src/src/stock_analyzer.py)  *)
(* and the results handler of the web layer (src/src/app.py).              *)
(*                                                                         *)
(* Numbers.  Prices are integers, so every sum, difference and comparison  *)
(* of the source is exact here as it is in binary floating point.  A float *)
(* is a record [k, v]: k = "num" (finite value v), "nan" or "inf" (v is    *)
(* the sign).  Where the source divides or takes a square root the model   *)
(* keeps the value in a scaled or squared form that decides the source's   *)
(* comparison exactly; the scale is stated at each definition.             *)
(***************************************************************************)
EXTENDS Integers, Sequences, FiniteSets, TLC

VARIABLES
    phase,      \* "start" before StockAnalyzer(csv_path), then "ready" or "failed"
    csv,        \* the file on disk: [header, rows]
    df,         \* self.df: the table, a sequence of rows
    columns,    \* self.df.columns
    loaded,     \* the table and its columns as they were when __init__ returned
    last        \* the latest call on the analyzer or request to /results, and its outcome

vars == <<phase, csv, df, columns, loaded, last>>

----------------------------------------------------------------------------
(* Floats *)

F(v) == [k |-> "num", v |-> v]

NaN == [k |-> "nan", v |-> 0]

Inf(sign) == [k |-> "inf", v |-> sign]

IsNum(x) == x.k = "num"

IsNaN(x) == x.k = "nan"

\* IEEE comparisons: every comparison with NaN is false
Gt(a, b) == IsNum(a) /\ IsNum(b) /\ a.v > b.v

Lt(a, b) == IsNum(a) /\ IsNum(b) /\ a.v < b.v

Ge(a, b) == IsNum(a) /\ IsNum(b) /\ a.v >= b.v

Le(a, b) == IsNum(a) /\ IsNum(b) /\ a.v <= b.v

Sign(n) == IF n > 0 THEN 1 ELSE IF n < 0 THEN -1 ELSE 0

Max(a, b) == IF a >= b THEN a ELSE b

Min(a, b) == IF a <= b THEN a ELSE b

Rep(n, x) == [j \in 1..n |-> x]

Reverse(s) == [j \in 1..Len(s) |-> s[Len(s) + 1 - j]]

Range(s) == {s[j] : j \in 1..Len(s)}

RECURSIVE ISqrtBetween(_, _, _)
ISqrtBetween(n, lo, hi) ==
    IF lo >= hi THEN lo
    ELSE LET mid == (lo + hi + 1) \div 2
         IN  IF mid * mid <= n THEN ISqrtBetween(n, mid, hi)
             ELSE ISqrtBetween(n, lo, mid - 1)

\* floor of the square root; 46340 * 46340 is the largest square below 2^31
ISqrt(n) == ISqrtBetween(n, 0, Min(n, 46340))

\* c[a] + ... + c[b], by halves (the recursion stays shallow on long tables)
RECURSIVE SumRange(_, _, _)
SumRange(c, a, b) ==
    IF a > b THEN 0
    ELSE IF a = b THEN c[a]
    ELSE LET mid == (a + b) \div 2
         IN  SumRange(c, a, mid) + SumRange(c, mid + 1, b)

RECURSIVE SumSqRange(_, _, _)
SumSqRange(c, a, b) ==
    IF a > b THEN 0
    ELSE IF a = b THEN c[a] * c[a]
    ELSE LET mid == (a + b) \div 2
         IN  SumSqRange(c, a, mid) + SumSqRange(c, mid + 1, b)

----------------------------------------------------------------------------
(* Program constants *)

DEFAULT_WINDOW == 20

SMA_20_WINDOW == 20

SMA_50_WINDOW == 50

SMA_200_WINDOW == 200

RSI_WINDOW == 14

BB_WINDOW == 20

BB_DEV == 2

\* the RSI of a series that never fell
RSI_MAX == 100

EMA_20_WINDOW == 20

EMA_50_WINDOW == 50

MACD_FAST == 12

MACD_SLOW == 26

RSI_OVERBOUGHT == 70

RSI_OVERSOLD == 30

TRADING_DAYS == 252

\* 0.02 of line 132 is 1 / CONSOLIDATION_DEN
CONSOLIDATION_DEN == 50

\* the summary prints returns and volatility as '.2%' and ratios as '.2f':
\* the model carries them at that resolution
PCT_SCALE == 10000

DEC_SCALE == 100

----------------------------------------------------------------------------
(* Bounds of the model *)

\* the exhaustive family: every close series of 1..MaxSmallBars bars over 1..MaxClose
MaxSmallBars == 4

MaxClose == 2

\* identify_patterns is called with window 1..MaxSmallWindow and with the default
MaxSmallWindow == 3

----------------------------------------------------------------------------
(* The input files *)

SYMBOL_A == "A"

SYMBOL_B == "B"

\* a symbol no file holds
SYMBOL_NONE == "ZZZ"

Symbols == {SYMBOL_A, SYMBOL_B, SYMBOL_NONE}

\* the header generate_sample_data.py writes
SampleHeader == {"date", "open", "high", "low", "close", "volume", "Name"}

DateSpellings == {"Date", "date", "timestamp", "TIMESTAMP"}

SymbolSpellings == {"Name", "symbol", "ticker", "Ticker", "Symbol"}

CloseSpellings == {"close"}

LowerRest == {"open", "high", "low", "volume"}

UpperRest == {"Open", "High", "Low", "Volume"}

Headers ==
    { d \cup s \cup c \cup r :
        d \in {{x} : x \in DateSpellings} \cup {{}},
        s \in {{x} : x \in SymbolSpellings} \cup {{}},
        c \in {{x} : x \in CloseSpellings} \cup {{}},
        r \in {LowerRest, UpperRest} }

\* one bar of the file; the parsed date is a day number
Bar(date, name, close, j) ==
    [Date |-> date, Name |-> name, Open |-> close, High |-> close + 1,
     Low |-> close, Close |-> close, Volume |-> 100 + j]

\* bars j and j+1 carry the same date when dupAt = j (dupAt = 0: distinct dates)
DateOf(j, dupAt) == IF dupAt > 0 /\ j > dupAt THEN j - 1 ELSE j

Block(name, closes, dupAt) ==
    [j \in 1..Len(closes) |-> Bar(DateOf(j, dupAt), name, closes[j], j)]

\* a ramp of `ramp` bars from `base` by `step`, then the bar-to-bar moves of `moves`
Ramp(base, ramp, step, moves) ==
    [j \in 1..(ramp + Len(moves)) |->
        IF j <= ramp THEN base + step * (j - 1)
        ELSE base + step * (ramp - 1) + SumRange(moves, 1, j - ramp)]

SmallSeries ==
    UNION { [1..n -> 1..MaxClose] : n \in 1..MaxSmallBars }

\* every small series of symbol A, with distinct dates or with its last two bars
\* on one date, alone or followed by one bar of symbol B
SmallFiles ==
    UNION { { Block(SYMBOL_A, c, 0),
              Block(SYMBOL_A, c, Len(c) - 1),
              Block(SYMBOL_A, c, 0) \o Block(SYMBOL_B, <<1>>, 0) } :
            c \in SmallSeries }

\* the scenarios of the specification, and series long enough for every indicator
Rising == Ramp(100, 25, 1, <<>>)

Falling == Ramp(100, 25, -1, <<>>)

Flat == Ramp(50, 30, 0, <<>>)

\* 20 rising bars, then two falls (a rise and a fall) on one date
Crash == Ramp(100, 20, 1, <<-40, -40>>)

Spike == Ramp(100, 20, 1, <<40, -100>>)

\* every daily return is the same and is not 0
Doubling == <<1, 2, 4, 8>>

\* the 50-bar average crosses the 200-bar average upwards (downwards)
\* (the bar after the upward crossing jumps above the upper band)
Recovery == Ramp(300, 200, -1, Rep(50, 3) \o <<40>> \o Rep(9, 3))

Decline == Ramp(100, 200, 1, Rep(60, -3))

ScenarioFiles ==
    { Block(SYMBOL_A, Rising, 0),
      Block(SYMBOL_A, SubSeq(Rising, 1, 20), 0),
      Block(SYMBOL_A, Doubling, 0),
      Block(SYMBOL_A, Falling, 0),
      Block(SYMBOL_A, Flat, 0),
      Block(SYMBOL_A, Crash, 0),
      Block(SYMBOL_A, Crash, 21),
      Block(SYMBOL_A, Spike, 0),
      Block(SYMBOL_A, Spike, 21),
      Block(SYMBOL_A, Recovery, 0),
      Block(SYMBOL_A, Decline, 0),
      Block(SYMBOL_A, SubSeq(Rising, 1, 12), 0) \o Block(SYMBOL_B, SubSeq(Flat, 1, 12), 0),
      Block(SYMBOL_A, Rising, 0) \o Block(SYMBOL_B, Falling, 0),
      Block(SYMBOL_A, Flat, 0) \o Block(SYMBOL_B, Rising, 0),
      Reverse(Block(SYMBOL_A, Rising, 0)) }

\* the rows under the headers that are not the sample header
HeaderRows == Block(SYMBOL_A, <<1, 2>>, 0)

CsvFiles ==
    { [header |-> SampleHeader, rows |-> r] : r \in SmallFiles \cup ScenarioFiles }
    \cup { [header |-> h, rows |-> HeaderRows] : h \in Headers }

----------------------------------------------------------------------------
(* StockAnalyzer.process_data *)

\* column_mapping, in the order of the dict literal
ColumnMapping ==
    << <<"date", "Date">>, <<"timestamp", "Date">>, <<"datetime", "Date">>,
       <<"symbol", "Name">>, <<"ticker", "Name">>, <<"name", "Name">>,
       <<"Name", "Name">>, <<"open", "Open">>, <<"high", "High">>,
       <<"low", "Low">>, <<"close", "Close">>, <<"volume", "Volume">> >>

RequiredColumns == {"Date", "Name", "Open", "High", "Low", "Close", "Volume"}

\* old_col in columns and new_col not in columns: rename
RenameOne(cols, old, new) ==
    IF old \in cols /\ new \notin cols THEN (cols \ {old}) \cup {new} ELSE cols

RECURSIVE RenameFrom(_, _)
RenameFrom(cols, k) ==
    IF k > Len(ColumnMapping) THEN cols
    ELSE RenameFrom(RenameOne(cols, ColumnMapping[k][1], ColumnMapping[k][2]), k + 1)

RenameColumns(header) == RenameFrom(header, 1)

MissingColumns(header) == RequiredColumns \ RenameColumns(header)

\* sort_values('Date'): the default sort is not stable, so rows of one date come
\* out in an order the build decides; ties are kept in file order or in its reverse
RowsOfDate(rows, d) == SelectSeq(rows, LAMBDA r : r.Date = d)

RECURSIVE SortFrom(_, _, _)
SortFrom(rows, d, maxDate) ==
    IF d > maxDate THEN <<>>
    ELSE IF d = maxDate THEN RowsOfDate(rows, d)
    ELSE LET mid == (d + maxDate) \div 2
         IN  SortFrom(rows, d, mid) \o SortFrom(rows, mid + 1, maxDate)

SortValues(rows, ties) ==
    LET src == IF ties = "file" THEN rows ELSE Reverse(rows)
    IN  SortFrom(src, 1, Len(rows))

TieOrders == {"file", "reversed"}

----------------------------------------------------------------------------
(* StockAnalyzer.calculate_technical_indicators, over the whole table *)

\* prices and averages in the table are carried in units of 1 / PriceScale, which
\* makes every simple moving average an integer
PriceScale == SMA_200_WINDOW

\* SMAIndicator(close, window).sma_indicator(): rolling(window, min_periods=window).mean()
SMA(c, w, k) ==
    IF k < w THEN NaN ELSE F(SumRange(c, k - w + 1, k) * (PriceScale \div w))

\* ewm(..., adjust=False).mean() with weights old / den and new / den, in fixed point:
\* y[1] = x[1], y[k] = (old * y[k-1] + new * x[k]) / den.  A value that is positive
\* (zero) in exact arithmetic stays positive (zero).
EwmStep(prev, x, old, new) ==
    LET y == (old * prev + new * x) \div (old + new)
    IN  IF prev > 0 \/ x > 0 THEN Max(1, y) ELSE y

\* acc holds y[1..a-1]; the result holds y[1..b] (the test on Len(left) makes
\* the left half a value before the right half is computed from it)
RECURSIVE EwmFrom(_, _, _, _, _, _)
EwmFrom(xs, a, b, acc, old, new) ==
    IF a > b THEN acc
    ELSE IF a = b
         THEN Append(acc, IF a = 1 THEN xs[1] ELSE EwmStep(acc[a - 1], xs[a], old, new))
    ELSE LET mid == (a + b) \div 2
             left == EwmFrom(xs, a, mid, acc, old, new)
         IN  IF Len(left) = mid THEN EwmFrom(xs, mid + 1, b, left, old, new) ELSE <<>>

Ewm(xs, old, new) == EwmFrom(xs, 1, Len(xs), <<>>, old, new)

\* EMAIndicator(close, window): ewm(span=window, min_periods=window, adjust=False)
EmaSeries(c, w) == Ewm([k \in 1..Len(c) |-> c[k] * PriceScale], w - 1, 2)

EMA(ema, w, k) == IF k < w THEN NaN ELSE F(ema[k])

\* RSIIndicator(close).rsi(): diff(1), the first difference (NaN) counted as 0,
\* gains and losses smoothed by ewm(alpha=1/14, min_periods=14, adjust=False)
EwmUnit == RSI_WINDOW * RSI_WINDOW

UpDirection(c) ==
    [k \in 1..Len(c) |-> IF k > 1 /\ c[k] > c[k - 1] THEN (c[k] - c[k - 1]) * EwmUnit ELSE 0]

DownDirection(c) ==
    [k \in 1..Len(c) |-> IF k > 1 /\ c[k] < c[k - 1] THEN (c[k - 1] - c[k]) * EwmUnit ELSE 0]

\* np.where(emadn == 0, 100, 100 - 100 / (1 + emaup / emadn)), in units of 1 / DEC_SCALE
RSI(up, dn, k) ==
    IF k < RSI_WINDOW THEN NaN
    ELSE IF dn[k] = 0 THEN F(RSI_MAX * DEC_SCALE)
    ELSE F((RSI_MAX * DEC_SCALE * up[k]) \div (up[k] + dn[k]))

\* BollingerBands(close): window 20, 2 deviations, rolling mean and std(ddof=0).
\* A band is kept as [m, s] with m = the window's sum and s = 20 * (sum of squares)
\* - m * m, so that the band is (m + 2 * sqrt(s)) / 20 (upper) or (m - 2 * sqrt(s)) / 20
Band(c, k) ==
    IF k < BB_WINDOW THEN [k |-> "nan", m |-> 0, s |-> 0]
    ELSE LET m == SumRange(c, k - BB_WINDOW + 1, k)
         IN  [k |-> "num", m |-> m,
              s |-> BB_WINDOW * SumSqRange(c, k - BB_WINDOW + 1, k) - m * m]

\* price > upper band
AboveUpper(price, band) ==
    /\ band.k = "num"
    /\ BB_WINDOW * price - band.m > 0
    /\ (BB_WINDOW * price - band.m) * (BB_WINDOW * price - band.m)
          > BB_DEV * BB_DEV * band.s

\* price < lower band
BelowLower(price, band) ==
    /\ band.k = "num"
    /\ band.m - BB_WINDOW * price > 0
    /\ (band.m - BB_WINDOW * price) * (band.m - BB_WINDOW * price)
          > BB_DEV * BB_DEV * band.s

IndicatorColumns ==
    {"SMA_20", "SMA_50", "SMA_200", "EMA_20", "EMA_50", "MACD", "RSI",
     "BB_Upper", "BB_Lower", "BB_Middle"}

\* the columns the model leaves out: nothing but the figure reads them
FigureColumns == {"MACD_Signal", "MACD_Hist", "Stoch_K", "Stoch_D"}

CalculateTechnicalIndicators(t) ==
    LET c     == [k \in 1..Len(t) |-> t[k].Close]
        up    == Ewm(UpDirection(c), RSI_WINDOW - 1, 1)
        dn    == Ewm(DownDirection(c), RSI_WINDOW - 1, 1)
        ema20 == EmaSeries(c, EMA_20_WINDOW)
        ema50 == EmaSeries(c, EMA_50_WINDOW)
        fast  == EmaSeries(c, MACD_FAST)
        slow  == EmaSeries(c, MACD_SLOW)
    IN  [k \in 1..Len(t) |->
            [Date |-> t[k].Date, Name |-> t[k].Name, Open |-> t[k].Open,
             High |-> t[k].High, Low |-> t[k].Low, Close |-> t[k].Close,
             Volume |-> t[k].Volume,
             SMA_20 |-> SMA(c, SMA_20_WINDOW, k),
             SMA_50 |-> SMA(c, SMA_50_WINDOW, k),
             SMA_200 |-> SMA(c, SMA_200_WINDOW, k),
             EMA_20 |-> EMA(ema20, EMA_20_WINDOW, k),
             EMA_50 |-> EMA(ema50, EMA_50_WINDOW, k),
             MACD |-> IF k < MACD_SLOW THEN NaN ELSE F(fast[k] - slow[k]),
             RSI |-> RSI(up, dn, k),
             BB_Upper |-> Band(c, k),
             BB_Lower |-> Band(c, k),
             BB_Middle |-> SMA(c, BB_WINDOW, k)]]

\* process_data after the column check: parse the dates, sort, add the indicators
ProcessData(rows, ties) == CalculateTechnicalIndicators(SortValues(rows, ties))

----------------------------------------------------------------------------
(* pandas positional indexing *)

\* s.iloc[idx] raises IndexError outside -len..len-1
IlocOk(s, idx) == -Len(s) <= idx /\ idx < Len(s)

Iloc(s, idx) == IF idx < 0 THEN s[Len(s) + idx + 1] ELSE s[idx + 1]

\* s.iloc[start:stop]: a slice never raises, it clips
SliceBound(s, x) == IF x < 0 THEN Max(0, x + Len(s)) ELSE Min(x, Len(s))

ILocSlice(s, start, stop) == SubSeq(s, SliceBound(s, start) + 1, SliceBound(s, stop))

\* self.df[self.df['Name'] == symbol].copy()
StockData(t, symbol) == SelectSeq(t, LAMBDA r : r.Name = symbol)

----------------------------------------------------------------------------
(* StockAnalyzer.identify_patterns *)

\* faulty variant: diff() without dropna(), whose first element (NaN) fails every test
AllUpNoDropna(wd) == wd = <<>>

\* faulty variant: >= 0 in place of > 0
AllUpNonStrict(wd) == \A j \in 2..Len(wd) : wd[j].Close >= wd[j - 1].Close

\* all(window_data['Close'].diff().dropna() > 0): true of a window with no difference
AllUp(wd) == \A j \in 2..Len(wd) : wd[j].Close > wd[j - 1].Close

AllDown(wd) == \A j \in 2..Len(wd) : wd[j].Close < wd[j - 1].Close

\* window_data['Close'].std() < window_data['Close'].mean() * 0.02, std with ddof=1
\* (NaN for fewer than two bars).  With S the sum, Q the sum of squares and w the
\* length: w * Q - S * S < (w - 1) * S * S / (50 * 50 * w).
TightRange(wd) ==
    LET w == Len(wd)
        c == [j \in 1..w |-> wd[j].Close]
        S == SumRange(c, 1, w)
        D == w * SumSqRange(c, 1, w) - S * S
        R == (w - 1) * S * S
    IN  /\ w >= 2
        /\ S > 0
        /\ R >= 1
        /\ D <= (R - 1) \div (CONSOLIDATION_DEN * CONSOLIDATION_DEN * w)

\* faulty variant: the event dated by the last bar of the window
EventDatedByWindow(sd, i, pattern, confidence) ==
    [date |-> Iloc(sd, i - 1).Date, pattern |-> pattern, confidence |-> confidence,
     index |-> i]

Event(sd, i, pattern, confidence) ==
    [date |-> Iloc(sd, i).Date, pattern |-> pattern, confidence |-> confidence,
     index |-> i]

\* lines 116-138: the if / elif / elif chain
TrendEvents(sd, wd, i) ==
    IF AllUp(wd) THEN <<Event(sd, i, "Strong Uptrend", "High")>>
    ELSE IF AllDown(wd) THEN <<Event(sd, i, "Strong Downtrend", "High")>>
    ELSE IF TightRange(wd) THEN <<Event(sd, i, "Consolidation", "Medium")>>
    ELSE <<>>

\* lines 141-142
GoldenCross(wd) ==
    /\ Le(Iloc(wd, -2).SMA_50, Iloc(wd, -2).SMA_200)
    /\ Gt(Iloc(wd, -1).SMA_50, Iloc(wd, -1).SMA_200)

\* lines 151-152
DeathCross(wd) ==
    /\ Ge(Iloc(wd, -2).SMA_50, Iloc(wd, -2).SMA_200)
    /\ Lt(Iloc(wd, -1).SMA_50, Iloc(wd, -1).SMA_200)

\* lines 141-158: two separate ifs
CrossEvents(sd, wd, i) ==
    (IF GoldenCross(wd) THEN <<Event(sd, i, "Golden Cross", "High")>> ELSE <<>>)
    \o (IF DeathCross(wd) THEN <<Event(sd, i, "Death Cross", "High")>> ELSE <<>>)

Overbought(wd) == Gt(Iloc(wd, -1).RSI, F(RSI_OVERBOUGHT * DEC_SCALE))

Oversold(wd) == Lt(Iloc(wd, -1).RSI, F(RSI_OVERSOLD * DEC_SCALE))

\* faulty variant: the Oversold event dated by the last bar of the window instead of bar i
MomentumEventsWindowDate(sd, wd, i) ==
    IF Overbought(wd) THEN <<Event(sd, i, "Overbought", "Medium")>>
    ELSE IF Oversold(wd)
    THEN <<[date |-> Iloc(wd, -1).Date, pattern |-> "Oversold",
            confidence |-> "Medium", index |-> i]>>
    ELSE <<>>

\* lines 161-174: if / elif
MomentumEvents(sd, wd, i) ==
    IF Overbought(wd) THEN <<Event(sd, i, "Overbought", "Medium")>>
    ELSE IF Oversold(wd) THEN <<Event(sd, i, "Oversold", "Medium")>>
    ELSE <<>>

\* lines 177-190: if / elif; current_price is the close of bar i
BandEvents(sd, wd, i) ==
    IF AboveUpper(Iloc(sd, i).Close, Iloc(wd, -1).BB_Upper)
    THEN <<Event(sd, i, "Above Upper Band", "Medium")>>
    ELSE IF BelowLower(Iloc(sd, i).Close, Iloc(wd, -1).BB_Lower)
    THEN <<Event(sd, i, "Below Lower Band", "Medium")>>
    ELSE <<>>

\* window_data = stock_data.iloc[i-window:i]
WindowData(sd, i, window) == ILocSlice(sd, i - window, i)

\* the loop body raises IndexError at stock_data.iloc[i] (line 113) or at
\* window_data[...].iloc[-2] (line 141)
BodyRaises(sd, i, window) ==
    \/ ~IlocOk(sd, i)
    \/ ~IlocOk(WindowData(sd, i, window), -2)

\* faulty variant: the crossover, RSI and band tests chained to the trend tests by elif
EventsAtChained(sd, i, window) ==
    LET wd == WindowData(sd, i, window)
    IN  IF TrendEvents(sd, wd, i) # <<>> THEN TrendEvents(sd, wd, i)
        ELSE CrossEvents(sd, wd, i) \o MomentumEvents(sd, wd, i) \o BandEvents(sd, wd, i)

EventsAt(sd, i, window) ==
    LET wd == WindowData(sd, i, window)
    IN  TrendEvents(sd, wd, i) \o CrossEvents(sd, wd, i)
        \o MomentumEvents(sd, wd, i) \o BandEvents(sd, wd, i)

\* range(window, len(stock_data)): its first and its last index
LoopFirst(n, window) == window

\* faulty variant: range(window, len(stock_data) + 1)
LoopLastInclusive(n, window) == n

LoopLast(n, window) == n - 1

RECURSIVE EventsOver(_, _, _, _)
EventsOver(sd, a, b, window) ==
    IF a > b THEN <<>>
    ELSE IF a = b THEN EventsAt(sd, a, window)
    ELSE LET mid == (a + b) \div 2
         IN  EventsOver(sd, a, mid, window) \o EventsOver(sd, mid + 1, b, window)

SymbolNotFound(sd) == sd = <<>>

IdentifyPatterns(t, symbol, window) ==
    LET sd == StockData(t, symbol)
        a  == LoopFirst(Len(sd), window)
        b  == LoopLast(Len(sd), window)
    IN  IF SymbolNotFound(sd)
        THEN [outcome |-> "ValueError", patterns |-> <<>>]
        ELSE IF \E i \in a..b : BodyRaises(sd, i, window)
        THEN [outcome |-> "IndexError", patterns |-> <<>>]
        ELSE [outcome |-> "ok", patterns |-> EventsOver(sd, a, b, window)]

\* stock_data['Price_Change'] = ..., stock_data['Volume_Change'] = ... are set on
\* the copy: the columns of self.df after the call
\* faulty variant: the two columns set on self.df itself
ColumnsSetOnStore(cols) == cols \cup {"Price_Change", "Volume_Change"}

ColumnsAfterIdentify(cols) == cols

----------------------------------------------------------------------------
(* StockAnalyzer.get_stock_summary *)

\* Close.pct_change(), without its first (NaN) element, in units of 1 / PCT_SCALE
DailyReturns(c) ==
    [j \in 1..(Len(c) - 1) |-> ((c[j + 1] - c[j]) * PCT_SCALE) \div c[j]]

\* all daily returns are the same number, decided on the exact fractions
SameReturns(c) ==
    \A j \in 2..(Len(c) - 1) :
        (c[j + 1] - c[j]) * c[1] = (c[2] - c[1]) * c[j]

\* Series.mean(): NaN when no element is defined
Mean(r) == IF Len(r) = 0 THEN NaN ELSE F(SumRange(r, 1, Len(r)) \div Len(r))

\* Series.std(), ddof=1: NaN for fewer than two defined elements
Std(r, same) ==
    IF Len(r) < 2 THEN NaN
    ELSE IF same THEN F(0)
    ELSE LET m == SumRange(r, 1, Len(r)) \div Len(r)
             d == [j \in 1..Len(r) |-> r[j] - m]
         IN  F(Max(1, ISqrt(SumSqRange(d, 1, Len(r)) \div (Len(r) - 1))))

Times(x, n) == IF IsNum(x) THEN F(x.v * n) ELSE x

\* x * np.sqrt(252)
TimesSqrtDays(x) ==
    IF IsNum(x) THEN F((x.v * ISqrt(TRADING_DAYS * PCT_SCALE)) \div ISqrt(PCT_SCALE))
    ELSE x

\* numpy float division, in units of 1 / DEC_SCALE: x / 0 is inf or NaN, not an error
FloatDiv(a, b) ==
    IF ~IsNum(a) \/ ~IsNum(b) THEN NaN
    ELSE IF b.v = 0 THEN (IF a.v = 0 THEN NaN ELSE Inf(Sign(a.v)))
    ELSE F((a.v * DEC_SCALE) \div b.v)

\* annualized_volatility != 0: true of NaN
NotZero(x) == ~(IsNum(x) /\ x.v = 0)

\* faulty variant: the division without its guard
SharpeUnguarded(ret, vol) == FloatDiv(ret, vol)

\* line 297
SharpeRatio(ret, vol) == IF NotZero(vol) THEN FloatDiv(ret, vol) ELSE F(0)

SetMax(S) == CHOOSE x \in S : \A y \in S : y <= x

SetMin(S) == CHOOSE x \in S : \A y \in S : x <= y

Summary(sd, symbol) ==
    LET n   == Len(sd)
        c   == [j \in 1..n |-> sd[j].Close]
        r   == DailyReturns(c)
        ret == Times(Mean(r), TRADING_DAYS)
        vol == TimesSqrtDays(Std(r, SameReturns(c)))
    IN  [Symbol |-> symbol,
         CurrentPrice |-> sd[n].Close,
         High52 |-> SetMax({sd[j].High : j \in 1..n}),
         Low52 |-> SetMin({sd[j].Low : j \in 1..n}),
         AverageVolume |-> SumRange([j \in 1..n |-> sd[j].Volume], 1, n) \div n,
         Volatility |-> vol,
         AnnualReturn |-> ret,
         SharpeRatio |-> SharpeRatio(ret, vol),
         RSI |-> sd[n].RSI,
         MACD |-> sd[n].MACD,
         SMA_20 |-> sd[n].SMA_20,
         SMA_50 |-> sd[n].SMA_50,
         SMA_200 |-> sd[n].SMA_200]

NoSummary == <<>>

GetStockSummary(t, symbol) ==
    LET sd == StockData(t, symbol)
    IN  IF SymbolNotFound(sd)
        THEN [outcome |-> "ValueError", summary |-> NoSummary]
        ELSE [outcome |-> "ok", summary |-> Summary(sd, symbol)]

----------------------------------------------------------------------------
(* StockAnalyzer.plot_stock_trend *)

\* start_date / end_date: 0 stands for None
Shown(sd, start, end) ==
    SelectSeq(sd, LAMBDA r : (start = 0 \/ r.Date >= start) /\ (end = 0 \/ r.Date <= end))

PlotStockTrend(t, symbol, start, end) ==
    LET sd == StockData(t, symbol)
    IN  IF SymbolNotFound(sd)
        THEN [outcome |-> "ValueError", shown |-> 0]
        ELSE [outcome |-> "ok", shown |-> Len(Shown(sd, start, end))]

----------------------------------------------------------------------------
(* The results handler of the web layer *)

\* faulty variant: except KeyError
CaughtKeyError(exception) == exception \in {"KeyError"}

\* except Exception: every exception the analyzer raises is caught
Caught(exception) == exception \in {"ValueError", "IndexError"}

\* lines 39-53: summary, patterns and figure in one try block
FirstFailure(t, symbol, start, end) ==
    LET s == GetStockSummary(t, symbol).outcome
        p == IdentifyPatterns(t, symbol, DEFAULT_WINDOW).outcome
        f == PlotStockTrend(t, symbol, start, end).outcome
    IN  IF s # "ok" THEN s ELSE IF p # "ok" THEN p ELSE f

ResultsResponse(t, symbol, start, end) ==
    LET e == FirstFailure(t, symbol, start, end)
    IN  IF e = "ok" THEN [kind |-> "render", flash |-> ""]
        ELSE IF Caught(e) THEN [kind |-> "redirect", flash |-> e]
        ELSE [kind |-> "unhandled", flash |-> ""]

----------------------------------------------------------------------------
(* The analyzer *)

Windows == 1..MaxSmallWindow \cup {DEFAULT_WINDOW}

\* the <<start_date, end_date>> a request may give; 0 is None
DateRanges == {<<0, 0>>, <<2, 3>>}

\* outcome: "ok" or the exception raised; for a request, the response
NoCall == [op |-> "none", symbol |-> "", window |-> 0, outcome |-> "none",
           patterns |-> <<>>, summary |-> NoSummary, shown |-> 0, flash |-> ""]

Init ==
    /\ phase = "start"
    /\ csv \in CsvFiles
    /\ df = <<>>
    /\ columns = {}
    /\ loaded = [df |-> <<>>, columns |-> {}]
    /\ last = NoCall

\* StockAnalyzer.__init__: read_csv, then process_data; a missing column raises
\* ValueError, re-raised as Exception("Error loading CSV file: ...")
LoadOk(ties) ==
    /\ phase = "start"
    /\ MissingColumns(csv.header) = {}
    /\ LET t == ProcessData(csv.rows, ties)
           cols == RenameColumns(csv.header) \cup IndicatorColumns \cup FigureColumns
       IN  /\ df' = t
           /\ columns' = cols
           /\ loaded' = [df |-> t, columns |-> cols]
    /\ phase' = "ready"
    /\ UNCHANGED <<csv, last>>

LoadFails ==
    /\ phase = "start"
    /\ MissingColumns(csv.header) # {}
    /\ phase' = "failed"
    /\ columns' = RenameColumns(csv.header)
    /\ UNCHANGED <<csv, df, loaded, last>>

CallIdentifyPatterns(symbol, window) ==
    /\ phase = "ready"
    /\ LET r == IdentifyPatterns(df, symbol, window)
       IN  last' = [op |-> "identify_patterns", symbol |-> symbol, window |-> window,
                    outcome |-> r.outcome, patterns |-> r.patterns,
                    summary |-> NoSummary, shown |-> 0, flash |-> ""]
    /\ columns' = ColumnsAfterIdentify(columns)
    /\ UNCHANGED <<phase, csv, df, loaded>>

CallGetStockSummary(symbol) ==
    /\ phase = "ready"
    /\ LET r == GetStockSummary(df, symbol)
       IN  last' = [op |-> "get_stock_summary", symbol |-> symbol, window |-> 0,
                    outcome |-> r.outcome, patterns |-> <<>>,
                    summary |-> r.summary, shown |-> 0, flash |-> ""]
    /\ UNCHANGED <<phase, csv, df, columns, loaded>>

CallPlotStockTrend(symbol, range) ==
    /\ phase = "ready"
    /\ LET r == PlotStockTrend(df, symbol, range[1], range[2])
       IN  last' = [op |-> "plot_stock_trend", symbol |-> symbol, window |-> 0,
                    outcome |-> r.outcome, patterns |-> <<>>,
                    summary |-> NoSummary, shown |-> r.shown, flash |-> ""]
    /\ UNCHANGED <<phase, csv, df, columns, loaded>>

\* GET /results?symbol=...&start_date=...&end_date=...
Results(symbol, range) ==
    /\ phase = "ready"
    /\ LET r == ResultsResponse(df, symbol, range[1], range[2])
       IN  last' = [op |-> "results", symbol |-> symbol, window |-> 0,
                    outcome |-> r.kind, patterns |-> <<>>,
                    summary |-> NoSummary, shown |-> 0, flash |-> r.flash]
    /\ columns' = ColumnsAfterIdentify(columns)
    /\ UNCHANGED <<phase, csv, df, loaded>>

Next ==
    \/ \E ties \in TieOrders : LoadOk(ties)
    \/ LoadFails
    \/ \E symbol \in Symbols, window \in Windows : CallIdentifyPatterns(symbol, window)
    \/ \E symbol \in Symbols : CallGetStockSummary(symbol)
    \/ \E symbol \in Symbols, range \in DateRanges : CallPlotStockTrend(symbol, range)
    \/ \E symbol \in Symbols, range \in DateRanges : Results(symbol, range)

Spec == Init /\ [][Next]_vars

----------------------------------------------------------------------------
(* Properties *)

\* the series of the symbol of the latest call
Series == StockData(df, last.symbol)

Identified == phase = "ready" /\ last.op = "identify_patterns"

Summarized == phase = "ready" /\ last.op = "get_stock_summary"

\* the events of the latest identify_patterns call for bar index i
EventsOf(i) == SelectSeq(last.patterns, LAMBDA e : e.index = i)

PatternsOf(i) == {e.pattern : e \in Range(EventsOf(i))}

\* C1: identify_patterns on a symbol that has fewer than `window` bars, or exactly
\* `window` bars, returns an empty event sequence and raises nothing.
C1_ShortSeriesNoEvents ==
    (Identified /\ Len(Series) >= 1 /\ Len(Series) <= last.window)
        => (last.outcome = "ok" /\ last.patterns = <<>>)

\* a series of exactly 20 bars scanned with the default window
C1_Witness ==
    /\ Identified
    /\ last.window = DEFAULT_WINDOW
    /\ Len(Series) = last.window
    /\ last.outcome = "ok"

\* the windows of the indicator columns that are plain floats
ColumnWindows ==
    [SMA_20 |-> SMA_20_WINDOW, SMA_50 |-> SMA_50_WINDOW, SMA_200 |-> SMA_200_WINDOW,
     EMA_20 |-> EMA_20_WINDOW, EMA_50 |-> EMA_50_WINDOW, RSI |-> RSI_WINDOW,
     BB_Middle |-> BB_WINDOW]

NullAt(row, col) == IsNaN(row[col])

\* C2 (as claimed): in every symbol's series of a loaded store, an indicator with
\* window n is null on exactly the first n - 1 bars of that series and non-null on
\* every later bar.
C2_NullPrefixPerSymbol ==
    phase = "ready" =>
        \A symbol \in {SYMBOL_A, SYMBOL_B} :
            LET sd == StockData(df, symbol)
            IN  \A j \in 1..Len(sd) :
                    /\ \A col \in DOMAIN ColumnWindows :
                          NullAt(sd[j], col) <=> (j <= ColumnWindows[col] - 1)
                    /\ (sd[j].BB_Upper.k = "nan") <=> (j <= BB_WINDOW - 1)
                    /\ (sd[j].BB_Lower.k = "nan") <=> (j <= BB_WINDOW - 1)

\* C3 (as claimed): the summary of a symbol with one single bar has annualized
\* return 0, annualized volatility 0 and Sharpe ratio 0.
C3_SingleBarSummaryZero ==
    (Summarized /\ Len(Series) = 1)
        => /\ last.outcome = "ok"
           /\ last.summary.AnnualReturn = F(0)
           /\ last.summary.Volatility = F(0)
           /\ last.summary.SharpeRatio = F(0)

\* C4: whenever the annualized volatility of the summary is 0, the Sharpe ratio is
\* exactly 0 (never infinite, never NaN).
C4_ZeroVolatilitySharpeZero ==
    (Summarized /\ last.outcome = "ok" /\ last.summary.Volatility = F(0))
        => last.summary.SharpeRatio = F(0)

\* the flat series of 30 bars, and a series whose equal returns are not 0
C4_Witness ==
    /\ Summarized
    /\ last.outcome = "ok"
    /\ last.summary.Volatility = F(0)
    /\ Len(Series) = 30

C4_WitnessNonZeroReturn ==
    /\ Summarized
    /\ last.outcome = "ok"
    /\ last.summary.Volatility = F(0)
    /\ Gt(last.summary.AnnualReturn, F(0))

Opposite(p, q) ==
    \/ p = "Overbought" /\ q = "Oversold"
    \/ p = "Above Upper Band" /\ q = "Below Lower Band"

DistinctDates(sd) == \A j, k \in 1..Len(sd) : j # k => sd[j].Date # sd[k].Date

\* C5 (as claimed): in the events of one identify_patterns call no date carries both
\* Overbought and Oversold, nor both Above Upper Band and Below Lower Band, series
\* with duplicate dates included.
C5_NoOppositeEventsOnADate ==
    Identified =>
        \A j, k \in 1..Len(last.patterns) :
            last.patterns[j].date = last.patterns[k].date
                => ~Opposite(last.patterns[j].pattern, last.patterns[k].pattern)

\* C5 (amended): no evaluated bar emits both events of such a pair, so that in a
\* series whose dates are pairwise distinct no date carries both.
C5_NoOppositeEventsOnABar ==
    Identified =>
        \A j, k \in 1..Len(last.patterns) :
            /\ last.patterns[j].date = last.patterns[k].date
            /\ (last.patterns[j].index = last.patterns[k].index \/ DistinctDates(Series))
            => ~Opposite(last.patterns[j].pattern, last.patterns[k].pattern)

\* a series of distinct dates whose RSI falls from above 70 to below 30 in one bar
C5_Witness ==
    /\ Identified
    /\ DistinctDates(Series)
    /\ \E j, k \in 1..Len(last.patterns) :
          /\ last.patterns[k].index = last.patterns[j].index + 1
          /\ Opposite(last.patterns[j].pattern, last.patterns[k].pattern)

TrendGroup == {"Strong Uptrend", "Strong Downtrend", "Consolidation"}

CrossGroup == {"Golden Cross", "Death Cross"}

MomentumGroup == {"Overbought", "Oversold"}

BandGroup == {"Above Upper Band", "Below Lower Band"}

Groups == {TrendGroup, CrossGroup, MomentumGroup, BandGroup}

CountIn(i, group) == Len(SelectSeq(EventsOf(i), LAMBDA e : e.pattern \in group))

\* C6: every evaluated bar emits at most one event of each of the four groups, at
\* most 4 in all; Consolidation only when neither trend matched; the crossover, RSI
\* and band events are decided by their own tests, whatever the trend group did.
C6_OneEventPerGroup ==
    (Identified /\ last.outcome = "ok") =>
        \A i \in last.window..(Len(Series) - 1) :
            LET wd == WindowData(Series, i, last.window)
            IN  /\ \A g \in Groups : CountIn(i, g) <= 1
                /\ Len(EventsOf(i)) <= 4
                /\ Range(EventsOf(i)) \subseteq
                      {e \in Range(last.patterns) : e.pattern \in UNION Groups}
                /\ "Consolidation" \in PatternsOf(i) => (~AllUp(wd) /\ ~AllDown(wd))
                /\ "Golden Cross" \in PatternsOf(i) <=> GoldenCross(wd)
                /\ "Death Cross" \in PatternsOf(i) <=> DeathCross(wd)
                /\ "Overbought" \in PatternsOf(i) <=> Overbought(wd)
                /\ "Oversold" \in PatternsOf(i) <=> Oversold(wd)
                /\ "Above Upper Band" \in PatternsOf(i)
                      <=> AboveUpper(Iloc(Series, i).Close, Iloc(wd, -1).BB_Upper)
                /\ "Below Lower Band" \in PatternsOf(i)
                      <=> BelowLower(Iloc(Series, i).Close, Iloc(wd, -1).BB_Lower)

\* a bar that emits four events, one of each group
C6_Witness ==
    /\ Identified
    /\ \E i \in last.window..(Len(Series) - 1) :
          /\ Len(EventsOf(i)) = 4
          /\ \A g \in Groups : CountIn(i, g) = 1

\* a bar that emits Consolidation together with an event of another group
C6_WitnessConsolidation ==
    /\ Identified
    /\ \E i \in last.window..(Len(Series) - 1) :
          /\ "Consolidation" \in PatternsOf(i)
          /\ Len(EventsOf(i)) >= 2

\* str.lower() on the column names the files use
Lower(name) ==
    CASE name = "Date" -> "date"
      [] name = "TIMESTAMP" -> "timestamp"
      [] name = "Name" -> "name"
      [] name = "Ticker" -> "ticker"
      [] name = "Symbol" -> "symbol"
      [] name = "Open" -> "open"
      [] name = "High" -> "high"
      [] name = "Low" -> "low"
      [] name = "Close" -> "close"
      [] name = "Volume" -> "volume"
      [] OTHER -> name

\* the required fields and the lower-case names that stand for each
Synonyms ==
    [date |-> {"date", "timestamp", "datetime"}, symbol |-> {"symbol", "ticker", "name"},
     open |-> {"open"}, high |-> {"high"}, low |-> {"low"}, close |-> {"close"},
     volume |-> {"volume"}]

AbsentIgnoringCase(header) ==
    {f \in DOMAIN Synonyms : \A h \in header : Lower(h) \notin Synonyms[f]}

\* C7 (as claimed): the headers are mapped by a case-insensitive synonym mapping,
\* and loading fails if and only if a required field is absent after that mapping.
C7_FailsIffAbsentIgnoringCase ==
    phase # "start" => (phase = "failed" <=> AbsentIgnoringCase(csv.header) # {})

\* C8: after the load, no call changes the analyzer's table: same rows, same order,
\* same columns, same values; Price_Change and Volume_Change never appear in it.
C8_StoreUnchanged ==
    phase = "ready" =>
        /\ df = loaded.df
        /\ columns = loaded.columns
        /\ columns \cap {"Price_Change", "Volume_Change"} = {}

\* a call that computed Price_Change and Volume_Change and returned events
C8_Witness ==
    /\ Identified
    /\ last.outcome = "ok"
    /\ last.patterns # <<>>

\* C9: for a symbol without rows identify_patterns and get_stock_summary raise the
\* symbol-not-found error and return nothing, and /results answers with a flashed
\* message and a redirect to the index page; no request ends in an unhandled
\* exception.
C9_MissingSymbolHandled ==
    phase = "ready" =>
        /\ (last.op \in {"identify_patterns", "get_stock_summary"} /\ Series = <<>>)
              => /\ last.outcome = "ValueError"
                 /\ last.patterns = <<>>
                 /\ last.summary = NoSummary
        /\ (last.op = "results" /\ Series = <<>>)
              => (last.outcome = "redirect" /\ last.flash = "ValueError")
        /\ last.op = "results" => last.outcome \in {"render", "redirect"}

C9_Witness ==
    /\ phase = "ready"
    /\ last.op = "results"
    /\ last.symbol = SYMBOL_NONE
    /\ last.outcome = "redirect"

StrictlyIncreasing(sd) == \A j \in 2..Len(sd) : sd[j].Close > sd[j - 1].Close

----------------------------------------------------------------------------
(* Flat series *)

\* the same positive close on every bar
FlatSeries(sd) ==
    /\ sd # <<>>
    /\ \A j \in 1..Len(sd) : sd[j].Close = sd[1].Close /\ sd[j].Close > 0

\* bar i has a Consolidation event of confidence Medium and no strong trend event
ConsolidationOnly(i) ==
    /\ \E j \in 1..Len(last.patterns) :
          /\ last.patterns[j].index = i
          /\ last.patterns[j].pattern = "Consolidation"
          /\ last.patterns[j].confidence = "Medium"
    /\ PatternsOf(i) \cap {"Strong Uptrend", "Strong Downtrend"} = {}

\* C11 (as stated): on a flat series longer than the window, whatever the window,
\* every evaluated bar i >= window has a Consolidation event of confidence Medium
\* and neither a Strong Uptrend nor a Strong Downtrend event.
C11_FlatSeriesConsolidation ==
    (Identified /\ FlatSeries(Series) /\ Len(Series) > last.window)
    => /\ last.outcome = "ok"
       /\ \A i \in last.window..(Len(Series) - 1) : ConsolidationOnly(i)

\* C11 (amended): the same for a window of at least two bars, the least window that
\* has a close-to-close difference and a standard deviation.
C11_FlatSeriesConsolidationFromTwo ==
    (Identified /\ FlatSeries(Series) /\ Len(Series) > last.window /\ last.window >= 2)
    => /\ last.outcome = "ok"
       /\ \A i \in last.window..(Len(Series) - 1) : ConsolidationOnly(i)

C11_Witness ==
    /\ Identified
    /\ FlatSeries(Series)
    /\ last.window = DEFAULT_WINDOW
    /\ Len(Series) = 30
    /\ last.outcome = "ok"
    /\ ConsolidationOnly(29)

C11_WitnessSmallWindow ==
    /\ Identified
    /\ FlatSeries(Series)
    /\ last.window = 2
    /\ Len(Series) = 4
    /\ ConsolidationOnly(2)
    /\ ConsolidationOnly(3)

----------------------------------------------------------------------------
(* Order and dates of the events *)

\* the event is that of an evaluated bar of the series and carries that bar's date
DatedByItsBar(sd, e) ==
    /\ e.index \in last.window..(Len(sd) - 1)
    /\ e.date = Iloc(sd, e.index).Date

\* bars and dates do not go back from one event to the next, hence along the
\* whole returned sequence
InBarOrder ==
    \A j \in 2..Len(last.patterns) :
        /\ last.patterns[j - 1].index <= last.patterns[j].index
        /\ last.patterns[j - 1].date <= last.patterns[j].date

\* the dates of the first `window` bars of the series
LeadingDates(sd) == {Iloc(sd, b).Date : b \in 0..(last.window - 1)}

\* C12 (as stated): the returned events are in bar order, each carries the date of
\* its bar i >= window, dates are non-decreasing along the sequence, and no event
\* carries the date of one of the first `window` bars.
C12_EventsInDateOrder ==
    (Identified /\ last.outcome = "ok")
    => LET sd == Series
           leading == LeadingDates(sd)
       IN  /\ InBarOrder
           /\ \A j \in 1..Len(last.patterns) :
                 /\ DatedByItsBar(sd, last.patterns[j])
                 /\ last.patterns[j].date \notin leading

\* C12 (amended): the returned events are in bar order, each carries the date of
\* its bar i >= window, dates are non-decreasing along the sequence, and in a
\* series of pairwise distinct dates no event carries the date of one of the
\* first `window` bars.
C12_EventsInBarOrder ==
    (Identified /\ last.outcome = "ok")
    => LET sd == Series
           leading == LeadingDates(sd)
       IN  /\ InBarOrder
           /\ \A j \in 1..Len(last.patterns) : DatedByItsBar(sd, last.patterns[j])
           /\ (last.patterns # <<>> /\ DistinctDates(sd))
                 => \A j \in 1..Len(last.patterns) : last.patterns[j].date \notin leading

\* events of several bars, from a file whose rows are not in date order
C12_Witness ==
    /\ Identified
    /\ last.outcome = "ok"
    /\ DistinctDates(Series)
    /\ csv.rows # <<>>
    /\ csv.rows[1].Date > csv.rows[Len(csv.rows)].Date
    /\ \E j, k \in 1..Len(last.patterns) :
          /\ j < k
          /\ last.patterns[j].date < last.patterns[k].date

\* an event of the first evaluated bar, which shares its date with the bar before
C12_WitnessSharedDate ==
    /\ Identified
    /\ last.outcome = "ok"
    /\ last.patterns # <<>>
    /\ last.patterns[1].index = last.window
    /\ last.patterns[1].date \in LeadingDates(Series)

----------------------------------------------------------------------------
(* Failures of identify_patterns *)

\* C13: for every window >= 1 and every series with at least `window` bars,
\* identify_patterns returns an event sequence and does not raise, also when the
\* indicators of the inspected bars are null and when the window has no
\* second-to-last bar.
C13_ReturnsWithEnoughBars ==
    (Identified /\ last.window >= 1 /\ Len(Series) >= last.window)
    => last.outcome = "ok"

\* the call that raises: a window of one bar and a series of at least two
C13_RaisesOnOneBarWindow ==
    /\ Identified
    /\ last.window = 1
    /\ Len(Series) >= 2
    /\ last.outcome = "IndexError"

----------------------------------------------------------------------------
(* Independence of the other symbols *)

\* the store that agrees with the loaded one on every bar of the symbol and has
\* no row of another symbol
OwnStore(symbol) == CalculateTechnicalIndicators(StockData(df, symbol))

OtherSymbols == {df[k].Name : k \in 1..Len(df)} \ {last.symbol}

PatternsOnOwnStore == IdentifyPatterns(OwnStore(last.symbol), last.symbol, last.window)

SummaryOnOwnStore == GetStockSummary(OwnStore(last.symbol), last.symbol)

\* C14: the results for a symbol do not depend on the bars of the other symbols:
\* identify_patterns returns the same event sequence, and get_stock_summary the
\* same record, as on the store that holds the bars of that symbol only.
C14_IndependentOfOtherSymbols ==
    /\ Identified => /\ last.outcome = PatternsOnOwnStore.outcome
                     /\ last.patterns = PatternsOnOwnStore.patterns
    /\ Summarized => /\ last.outcome = SummaryOnOwnStore.outcome
                     /\ last.summary = SummaryOnOwnStore.summary

\* the events of a symbol change with the rows of another symbol
C14_PatternsDepend ==
    /\ Identified
    /\ OtherSymbols # {}
    /\ last.outcome = "ok"
    /\ PatternsOnOwnStore.outcome = "ok"
    /\ last.patterns # PatternsOnOwnStore.patterns

\* the summary of a symbol changes with the rows of another symbol
C14_SummaryDepends ==
    /\ Summarized
    /\ OtherSymbols # {}
    /\ last.outcome = "ok"
    /\ last.summary # SummaryOnOwnStore.summary

\* in a store of one symbol there is nothing to depend on
C14_SingleSymbolStore ==
    OtherSymbols = {} => C14_IndependentOfOtherSymbols

====
